---- MODULE Spec2Model ----
(***************************************************************************)
(* BondMarketSimulator (src/simulation/market_model.py): the simulation    *)
(* engine only -- population generation, market initialisation, the        *)
(* market-condition process, the daily trading step, carry-forward and the *)
(* driver loop of run_simulation.                                          *)
(*                                                                         *)
(* Numbers.  TLC has 32-bit integers and no reals, so every float of the   *)
(* program lives on a fixed grid:                                          *)
(*   money (face_value, assets, amounts, volume, price)  whole units       *)
(*   rates, spreads, price factors, noise on prices      basis points      *)
(*   market_sentiment                                    hundredths        *)
(*   multiplicative noise on spread and depth            percent           *)
(* A product is rounded down to the grid where the program keeps a float.  *)
(*                                                                         *)
(* Randomness.  Every np.random call is a nondeterministic choice from a   *)
(* small set.  Each set has a reference value (the first entry of a choice *)
(* list, the location parameter of a distribution); devs counts the draws  *)
(* of the execution that departed from it and MaxDevs bounds that count,   *)
(* so the executions explored are exactly those within MaxDevs draws of    *)
(* the reference stream.                                                   *)
(***************************************************************************)
EXTENDS Integers, Sequences, FiniteSets, TLC

VARIABLES
    cfg,                \* the constructor arguments kept on self
    bonds,              \* self.bonds: None or the 2B bond rows
    investors,          \* self.investors: None or the investor rows
    market,             \* self.traditional_market / self.tokenized_market
    transactions,       \* self.traditional_transactions / self.tokenized_transactions
    market_sentiment,   \* self.market_sentiment (absent before the first day)
    metrics,            \* run_simulation's traditional_metrics / tokenized_metrics
    metrics_df,         \* self.traditional_metrics_df / self.tokenized_metrics_df
    transactions_df,    \* self.traditional_transactions_df / self.tokenized_transactions_df
    day,                \* run_simulation's loop variable
    market_conditions,  \* run_simulation's market_conditions
    frame,              \* the active call of _simulate_daily_trading, or None
    pc,                 \* the position of the driver
    error,              \* the exception that ended run_simulation, or "none"
    devs,               \* draws so far that departed from the reference stream
    cond_calls,         \* calls of _update_market_conditions in this run
    received,           \* <<the conditions venue v's step was called with today>>, or <<>>
    first_outputs,      \* <<the tables of an earlier run of this configuration>>, or <<>>
    day_start,          \* the two venue tables as they stood when the day began
    probe               \* a formula of the engine applied on its own: inputs and result

vars == <<cfg, bonds, investors, market, transactions, market_sentiment, metrics,
          metrics_df, transactions_df, day, market_conditions, frame, pc, error,
          devs, cond_calls, received, first_outputs, day_start, probe>>

None == "None"
\* no call of _simulate_daily_trading is active
NoFrame == [venue |-> "none"]
\* no formula is being applied on its own
NoProbe == [kind |-> "none"]
Venues == {"traditional", "tokenized"}
IsTokenized(v) == v = "tokenized"

\* ------------------------------------------------------------------ bounds
MaxBonds == 2
MaxInvestors == 2
MaxDays == 2
MaxDevs == 2

\* --------------------------------------------------------- configurations
\* __init__ stores its arguments unchecked, so a count of zero is a
\* configuration the object can hold.
BondCounts == 0..MaxBonds
InvestorCounts == 0..MaxInvestors
DayCounts == 0..MaxDays
TraditionalMins == {10000}
TokenizedMins == {100, 50000000}

Configs ==
    [num_bonds : BondCounts, num_investors : InvestorCounts,
     simulation_days : DayCounts, traditional_min_amount : TraditionalMins,
     tokenized_min_amount : TokenizedMins]

\* ------------------------------------------------------------- arithmetic
RECURSIVE SumSeq(_)
SumSeq(s) == IF s = <<>> THEN 0 ELSE Head(s) + SumSeq(Tail(s))

Column(table, f) == [i \in 1..Len(table) |-> table[i][f]]

\* Series.mean(), rounded down to the grid of the column
Mean(s) == SumSeq(s) \div Len(s)

Min2(a, b) == IF a <= b THEN a ELSE b
Max2(a, b) == IF a >= b THEN a ELSE b
Abs(x) == IF x < 0 THEN -x ELSE x

\* np.clip
Clip(x, lo, hi) == IF x < lo THEN lo ELSE IF x > hi THEN hi ELSE x

\* int(): truncation toward zero
TruncDiv(a, b) == IF a >= 0 THEN a \div b ELSE -((-a) \div b)

\* round(a / b) for a >= 0 and b > 0: the nearest integer, a tie going to
\* the even one
RoundHalfEven(a, b) ==
    LET q == a \div b
        r == a % b
    IN IF 2 * r < b THEN q
       ELSE IF 2 * r > b THEN q + 1
       ELSE IF q % 2 = 0 THEN q ELSE q + 1

\* one, in basis points
BP == 100 * 100
ScaleBP(x, f) == (x * f) \div BP

\* ---------------------------------------------------------------- the draws
\* Number of entries of a drawn array that are not the reference value.
Departures(arr, ref) == Cardinality({i \in DOMAIN arr : arr[i] # ref})
Departs(x, ref) == IF x = ref THEN 0 ELSE 1

\* np.random.choice([1000, 5000, 10000, 50000, 100000], B)
FaceValues == <<1000, 10000>>
\* np.random.uniform(0.01, 0.08, B), in basis points
CouponRates == <<100, 800>>
\* np.random.choice([1, 2, 3, 5, 7, 10, 15, 20, 30], B)
Maturities == <<1, 30>>
\* np.random.choice(['AAA', 'AA', 'A', 'BBB', 'BB', 'B'], B, p=...)
CreditRatings == <<"AAA", "B">>
\* np.random.lognormal(10, 2) * 10000: the median, and two poor investors
Assets == <<220000000, 50000, 500>>

Range(s) == {s[i] : i \in DOMAIN s}

\* ---------------------------------------------------------------- dates
\* pd.Timestamp('2024-01-01') as <<year, month, day>>
StartDate == <<2024, 1, 1>>
AddYears(d, n) == <<d[1] + n, d[2], d[3]>>
\* + pd.DateOffset(days=n), for the n < 31 of the bounded runs
AddDays(d, n) == <<d[1], d[2], d[3] + n>>

\* ----------------------------------------------------------------- Init
Init ==
    /\ cfg \in Configs
    /\ bonds = None
    /\ investors = None
    /\ market = [v \in Venues |-> None]
    /\ transactions = [v \in Venues |-> <<>>]
    /\ market_sentiment = None
    /\ metrics = [v \in Venues |-> <<>>]
    /\ metrics_df = [v \in Venues |-> None]
    /\ transactions_df = [v \in Venues |-> None]
    /\ day = 0
    /\ market_conditions = None
    /\ frame = NoFrame
    /\ pc = "generate_bonds"
    /\ error = "none"
    /\ devs = 0
    /\ cond_calls = 0
    /\ received = [v \in Venues |-> <<>>]
    /\ first_outputs = <<>>
    /\ day_start = [v \in Venues |-> None]
    /\ probe = NoProbe

\* An exception leaves run_simulation: the driver stays where it was.
Raise(exc) ==
    /\ error' = exc
    /\ UNCHANGED pc

Running == error = "none"

\* which objects exist, by the position of the driver
BondsGenerated == pc # "generate_bonds"
InvestorsGenerated == pc \notin {"generate_bonds", "generate_investors"}
MarketsInitialized ==
    pc \notin {"generate_bonds", "generate_investors", "initialize_markets"}
InTradingStep == pc = "trading"

\* ------------------------------------------------------ generate_bonds
BondRow(i, face, coupon, maturity, rating) ==
    [label |-> i - 1, bond_id |-> i, face_value |-> face, coupon_rate |-> coupon,
     maturity_years |-> maturity, credit_rating |-> rating,
     issue_date |-> StartDate, is_tokenized |-> FALSE,
     maturity_date |-> AddYears(StartDate, maturity)]

\* the copy without the id shift
TokenizedCopySameId(row, B) ==
    [row EXCEPT !.is_tokenized = TRUE, !.label = row.label + B]

\* tokenized_bonds: the copy with the flag set and the id shifted; concat
\* with ignore_index=True relabels the copy B..2B-1
TokenizedCopy(row, B) ==
    [row EXCEPT !.is_tokenized = TRUE, !.bond_id = row.bond_id + B,
                !.label = row.label + B]

GenerateBonds ==
    /\ Running
    /\ pc = "generate_bonds"
    /\ bonds = None
    /\ LET B == cfg.num_bonds IN
       \/ /\ B = 0
          \* DataFrame.apply on the empty frame returns a frame, which some
          \* pandas versions refuse to store in the maturity_date column
          /\ \/ /\ Raise("ValueError")
                /\ UNCHANGED bonds
             \/ /\ bonds' = <<>>
                /\ pc' = "generate_investors"
                /\ UNCHANGED error
          /\ UNCHANGED devs
       \/ /\ B > 0
          /\ \E face_values \in [1..B -> Range(FaceValues)],
                coupon_rates \in [1..B -> Range(CouponRates)],
                maturities \in [1..B -> Range(Maturities)],
                credit_ratings \in [1..B -> Range(CreditRatings)] :
                LET traditional == [i \in 1..B |->
                        BondRow(i, face_values[i], coupon_rates[i],
                                maturities[i], credit_ratings[i])]
                    tokenized_bonds == [i \in 1..B |-> TokenizedCopy(traditional[i], B)]
                IN /\ devs' = devs + Departures(face_values, FaceValues[1])
                                   + Departures(coupon_rates, CouponRates[1])
                                   + Departures(maturities, Maturities[1])
                                   + Departures(credit_ratings, CreditRatings[1])
                   /\ devs' <= MaxDevs
                   /\ bonds' = traditional \o tokenized_bonds
          /\ pc' = "generate_investors"
          /\ UNCHANGED error
    /\ UNCHANGED <<cfg, investors, market, transactions, market_sentiment, metrics,
                   metrics_df, transactions_df, day, market_conditions, frame,
                   cond_calls, received, first_outputs,
                   day_start, probe>>

\* --------------------------------------------------- generate_investors
\* type, blockchain_preference, risk_aversion and investment_horizon are
\* drawn too; only the report code reads them
InvestorRow(i, a) == [investor_id |-> i, assets |-> a]

GenerateInvestors ==
    /\ Running
    /\ pc = "generate_investors"
    /\ investors = None
    /\ \E assets \in [1..cfg.num_investors -> Range(Assets)] :
          /\ devs' = devs + Departures(assets, Assets[1])
          /\ devs' <= MaxDevs
          /\ investors' = [i \in 1..cfg.num_investors |-> InvestorRow(i, assets[i])]
    /\ pc' = "initialize_markets"
    /\ UNCHANGED <<cfg, bonds, market, transactions, market_sentiment, metrics,
                   metrics_df, transactions_df, day, market_conditions, frame,
                   error, cond_calls, received, first_outputs,
                   day_start, probe>>

\* --------------------------------------------------- initialize_markets
ReferenceRate == 300
VolumeFactor(v) == IF IsTokenized(v) THEN 5 ELSE 1

\* face_value * (1 + (coupon_rate - reference_rate) * maturity_years)
InitialPrice(b) ==
    ScaleBP(b.face_value, BP + (b.coupon_rate - ReferenceRate) * b.maturity_years)

\* base_volume = face_value * 0.01, five times that on the tokenized venue
FloorVolume(b, v) == (b.face_value \div 100) * VolumeFactor(v)

\* 0.001 + 0.001 * maturity_years  /  0.005 + 0.002 * maturity_years
InitialSpread(b, v) ==
    IF IsTokenized(v) THEN 10 + 10 * b.maturity_years
                      ELSE 50 + 20 * b.maturity_years

DepthFloor(v) == IF IsTokenized(v) THEN 50 ELSE 10
\* np.random.poisson(50, n) / np.random.poisson(10, n)
PoissonDraws(v) == IF IsTokenized(v) THEN <<50, 43>> ELSE <<10, 7>>

\* self.bonds[self.bonds['is_tokenized'] == flag].copy(): the rows keep
\* their labels
VenueBonds(v) == SelectSeq(bonds, LAMBDA b : b.is_tokenized = IsTokenized(v))

MarketRow(b, v, jitter) ==
    [label |-> b.label, bond_id |-> b.bond_id, face_value |-> b.face_value,
     coupon_rate |-> b.coupon_rate, maturity_years |-> b.maturity_years,
     credit_rating |-> b.credit_rating, issue_date |-> b.issue_date,
     is_tokenized |-> b.is_tokenized, maturity_date |-> b.maturity_date,
     price |-> InitialPrice(b), daily_volume |-> FloorVolume(b, v),
     bid_ask_spread |-> InitialSpread(b, v),
     market_depth |-> DepthFloor(v) + jitter]

InitialMarket(v, jitter) ==
    [i \in 1..Len(VenueBonds(v)) |-> MarketRow(VenueBonds(v)[i], v, jitter[i])]

InitializeMarkets ==
    /\ Running
    /\ pc = "initialize_markets"
    /\ \E v \in Venues : market[v] = None
    /\ \/ /\ bonds = <<>>
          \* market.iloc[0] on a table without rows
          /\ Raise("IndexError")
          /\ UNCHANGED <<market, devs>>
       \/ /\ bonds # <<>>
          /\ \E jt \in [1..cfg.num_bonds -> Range(PoissonDraws("traditional"))],
                jk \in [1..cfg.num_bonds -> Range(PoissonDraws("tokenized"))] :
                /\ devs' = devs + Departures(jt, PoissonDraws("traditional")[1])
                                + Departures(jk, PoissonDraws("tokenized")[1])
                /\ devs' <= MaxDevs
                /\ market' = [v \in Venues |->
                       InitialMarket(v, IF IsTokenized(v) THEN jk ELSE jt)]
          /\ pc' = "begin"
          /\ UNCHANGED error
    /\ UNCHANGED <<cfg, bonds, investors, transactions, market_sentiment, metrics,
                   metrics_df, transactions_df, day, market_conditions, frame,
                   cond_calls, received, first_outputs,
                   day_start, probe>>

\* ------------------------------------------------------- run_simulation
\* lines 181-188: the two metrics lists start empty, the loop starts at 0
BeginLoop ==
    /\ Running
    /\ pc = "begin"
    /\ metrics' = [v \in Venues |-> <<>>]
    /\ day' = 0
    /\ cond_calls' = 0
    /\ received' = [v \in Venues |-> <<>>]
    /\ pc' = "loop"
    /\ UNCHANGED <<cfg, bonds, investors, market, transactions, market_sentiment,
                   metrics_df, transactions_df, market_conditions, frame, error,
                   devs, first_outputs,
                   day_start, probe>>

\* the loop running one day too many
LoopRunsOneMore(d) == cfg.simulation_days > 0 /\ d <= cfg.simulation_days

\* for day in range(self.simulation_days)
LoopRuns(d) == d < cfg.simulation_days

\* ------------------------------------------- _update_market_conditions
\* np.random.normal(0, 0.0005), basis points
RateNoise == <<0, 5>>
\* np.random.normal(0, 0.1), hundredths: none, and two changes large
\* enough for the clip to act
SentimentChanges == <<0, 600, -600>>
\* np.random.random() < 0.01 and then np.random.normal(0, 0.03): no event,
\* or an event of -3%
EventImpacts == <<0, -300>>

\* the trend with the days counted from one
RateTrendFromDayOne(d, n) == ((d + 1) * 100) \div n

\* rate_trend = day / self.simulation_days * 0.01
RateTrend(d, n) == (d * 100) \div n

\* the blend without the clip
NextSentimentUnclipped(s, change) == (8 * s + 2 * change) \div 10

\* 0.8 * sentiment + 0.2 * sentiment_change, clipped to [-1, 1]
NextSentiment(s, change) == Clip((8 * s + 2 * change) \div 10, -100, 100)

\* lines 244-251: 0 on day 0, the clipped blend afterwards
DaySentiment(d, previous, change) ==
    IF d = 0 THEN 0 ELSE NextSentiment(previous, change)

\* base_volatility * (1 + 0.5 * abs(sentiment))
Volatility(s) == 100 + Abs(s) \div 2

UpdateMarketConditions ==
    /\ Running
    /\ pc = "loop"
    /\ LoopRuns(day)
    /\ \E daily_noise \in Range(RateNoise),
          sentiment_change \in (IF day = 0 THEN {SentimentChanges[1]}
                                ELSE Range(SentimentChanges)),
          event_impact \in Range(EventImpacts) :
          LET s == DaySentiment(day, market_sentiment, sentiment_change)
          IN /\ devs' = devs + Departs(daily_noise, RateNoise[1])
                             + Departs(sentiment_change, SentimentChanges[1])
                             + Departs(event_impact, EventImpacts[1])
             /\ devs' <= MaxDevs
             /\ market_sentiment' = s
             /\ market_conditions' =
                   [reference_rate |-> ReferenceRate
                                       + RateTrend(day, cfg.simulation_days)
                                       + daily_noise,
                    market_sentiment |-> s,
                    volatility |-> Volatility(s),
                    event_impact |-> event_impact]
    /\ cond_calls' = cond_calls + 1
    /\ received' = [v \in Venues |-> <<>>]
    /\ day_start' = market
    /\ pc' = "call_traditional"
    /\ UNCHANGED <<cfg, bonds, investors, market, transactions, metrics,
                   metrics_df, transactions_df, day, frame, error, first_outputs,
                   probe>>

\* --------------------------------------------- _simulate_daily_trading
CallPc(v) == IF IsTokenized(v) THEN "call_tokenized" ELSE "call_traditional"
MinAmount(v) ==
    IF IsTokenized(v) THEN cfg.tokenized_min_amount ELSE cfg.traditional_min_amount
CapMultiple(v) == IF IsTokenized(v) THEN 1 ELSE 5

\* price_impact = -(maturity_years * 0.05) * (reference_rate - 0.03)
PriceImpact(maturity, rate) == (-(maturity * 5 * (rate - ReferenceRate))) \div 100

\* bond['price'] * (1 + price_impact) * price_change_factor, then
\* *= (1 + specific_noise)
UpdatedPrice(row, mc, noise) ==
    ScaleBP(ScaleBP(ScaleBP(row.price, BP + PriceImpact(row.maturity_years,
                                                        mc.reference_rate)),
                    BP + mc.event_impact + mc.market_sentiment),
            BP + noise)

\* np.random.normal(0, volatility) per bond: none, or one volatility up
PriceNoise(vol) == <<0, vol>>

\* the targets without the minimum of one
TargetTransactionsNoMinimum(v, n, s) ==
    IF IsTokenized(v) THEN TruncDiv(2 * n * (150 + s), 100)
                      ELSE TruncDiv(2 * n * (100 + s), 200)

\* int(base * (1.5 + sentiment)) / int(base * (0.5 + 0.5 * sentiment)),
\* at least 1
TargetTransactions(v, n, s) ==
    Max2(1, IF IsTokenized(v) THEN TruncDiv(2 * n * (150 + s), 100)
                              ELSE TruncDiv(2 * n * (100 + s), 200))

\* the tokenized call handed conditions of its own, without the event
CallArgumentsOwnConditions(v) ==
    [market |-> market[v], current_date |-> AddDays(StartDate, day),
     market_conditions |->
         IF IsTokenized(v) THEN [market_conditions EXCEPT !.event_impact = 0]
                           ELSE market_conditions,
     is_tokenized |-> IsTokenized(v)]

\* the arguments of the driver's call (lines 195-200 and 205-210)
CallArguments(v) ==
    [market |-> market[v], current_date |-> AddDays(StartDate, day),
     market_conditions |-> market_conditions, is_tokenized |-> IsTokenized(v)]

\* lines 283-313: the copy, the price update and the day's target
PriceUpdate(v) ==
    /\ Running
    /\ pc = CallPc(v)
    /\ LET args == CallArguments(v)
           mc == args.market_conditions
           n == Len(args.market)
       IN \E noise \in [1..n -> Range(PriceNoise(mc.volatility))] :
             /\ devs' = devs + Departures(noise, PriceNoise(mc.volatility)[1])
             /\ devs' <= MaxDevs
             /\ frame' = [venue |-> v,
                          current_date |-> args.current_date,
                          market_conditions |-> mc,
                          is_tokenized |-> args.is_tokenized,
                          updated_market |->
                              [i \in 1..n |->
                                  [args.market[i] EXCEPT
                                      !.price = UpdatedPrice(args.market[i], mc, noise[i])]],
                          daily_transactions |-> <<>>,
                          num_transactions |->
                              TargetTransactions(v, n, mc.market_sentiment),
                          attempts |-> 0,
                          skipped |-> 0]
             /\ received' = [received EXCEPT ![v] = <<mc>>]
    /\ pc' = "trading"
    /\ UNCHANGED <<cfg, bonds, investors, market, transactions, market_sentiment,
                   metrics, metrics_df, transactions_df, day, market_conditions,
                   error, cond_calls, first_outputs,
                   day_start, probe>>

\* np.random.exponential(2): the scale, the least value, and a large one
ExpDraws == <<2, 0, 20>>
Sides == <<"buy", "sell">>

\* max_amount = min(face_value * multiple, assets * 0.1)
MaxAmount(v, bond, investor) ==
    Min2(bond.face_value * CapMultiple(v), investor.assets \div 10)

\* the check against the whole of the assets
CannotAffordFromAssets(v, investor) == MinAmount(v) > investor.assets

\* min_amount > investor['assets'] * 0.1
CannotAfford(v, investor) == 10 * MinAmount(v) > investor.assets

\* min(min_amount * (1 + exponential), max_amount)
TransactionAmount(v, bond, investor, e) ==
    Min2(MinAmount(v) * (1 + e), MaxAmount(v, bond, investor))

\* bond['price'] * (1 + spread/2) for a buy, * (1 - spread/2) for a sell
TransactionPrice(bond, side) ==
    IF side = "buy" THEN (bond.price * (2 * BP + bond.bid_ask_spread)) \div (2 * BP)
                    ELSE (bond.price * (2 * BP - bond.bid_ask_spread)) \div (2 * BP)

Labels(table) == {table[i].label : i \in 1..Len(table)}

\* updated_market.at[label, 'daily_volume'] += amount, for a label of the table
AddVolume(table, label, amount) ==
    [i \in 1..Len(table) |->
        IF table[i].label = label
        THEN [table[i] EXCEPT !.daily_volume = @ + amount]
        ELSE table[i]]

\* a pairing that cannot afford the minimum is drawn again: the pass is
\* not spent
AfterSkipRetry(f) == [f EXCEPT !.skipped = @ + 1]

\* lines 336-337: continue -- the pass of the for loop is spent; skipped
\* counts the passes that ended this way
AfterSkip(f) == [f EXCEPT !.attempts = @ + 1, !.skipped = @ + 1]

\* One pass of the loop of lines 316-364.
Attempt ==
    /\ Running
    /\ pc = "trading"
    /\ frame.attempts < frame.num_transactions
    /\ LET v == frame.venue
           um == frame.updated_market
       IN \E bond_idx \in 0..(Len(um) - 1) :
          LET bond == um[bond_idx + 1] IN
          \/ /\ investors = <<>>
             \* np.random.randint(0, 0)
             /\ Raise("ValueError")
             /\ devs' = devs + Departs(bond_idx, 0)
             /\ devs' <= MaxDevs
             /\ UNCHANGED frame
          \/ \E investor_idx \in 0..(Len(investors) - 1) :
             LET investor == investors[investor_idx + 1]
                 d2 == devs + Departs(bond_idx, 0) + Departs(investor_idx, 0)
             IN
             \/ /\ CannotAfford(v, investor)
                /\ devs' = d2
                /\ devs' <= MaxDevs
                /\ frame' = AfterSkip(frame)
                /\ UNCHANGED <<pc, error>>
             \/ /\ ~CannotAfford(v, investor)
                /\ \E e \in Range(ExpDraws), side \in Range(Sides) :
                   LET transaction ==
                           [date |-> frame.current_date,
                            bond_id |-> bond.bond_id,
                            investor_id |-> investor.investor_id,
                            price |-> TransactionPrice(bond, side),
                            amount |-> TransactionAmount(v, bond, investor, e),
                            type |-> side,
                            is_tokenized |-> frame.is_tokenized]
                       recorded == Append(frame.daily_transactions, transaction)
                   IN /\ devs' = d2 + Departs(e, ExpDraws[1]) + Departs(side, Sides[1])
                      /\ devs' <= MaxDevs
                      /\ IF bond_idx \in Labels(um)
                         THEN /\ frame' = [frame EXCEPT
                                     !.daily_transactions = recorded,
                                     !.updated_market =
                                         AddVolume(um, bond_idx, transaction.amount),
                                     !.attempts = @ + 1]
                              /\ UNCHANGED <<pc, error>>
                         ELSE \* .at[bond_idx, ...] reads a label the table lacks
                              /\ frame' = [frame EXCEPT !.daily_transactions = recorded]
                              /\ Raise("KeyError")
    /\ UNCHANGED <<cfg, bonds, investors, market, transactions, market_sentiment,
                   metrics, metrics_df, transactions_df, day, market_conditions,
                   cond_calls, received, first_outputs,
                   day_start, probe>>

\* the metrics with the day's target in place of the executed count
DailyMetricsTarget(f) ==
    [date |-> f.current_date,
     avg_price |-> Mean(Column(f.updated_market, "price")),
     total_volume |-> SumSeq(Column(f.updated_market, "daily_volume")),
     avg_spread |-> Mean(Column(f.updated_market, "bid_ask_spread")),
     num_transactions |-> f.num_transactions,
     market_depth |-> Mean(Column(f.updated_market, "market_depth"))]

\* lines 366-374
DailyMetrics(f) ==
    [date |-> f.current_date,
     avg_price |-> Mean(Column(f.updated_market, "price")),
     total_volume |-> SumSeq(Column(f.updated_market, "daily_volume")),
     avg_spread |-> Mean(Column(f.updated_market, "bid_ask_spread")),
     num_transactions |-> Len(f.daily_transactions),
     market_depth |-> Mean(Column(f.updated_market, "market_depth"))]

\* np.random.normal(1, 0.05, n), percent
SpreadNoise == <<100, 25, 105>>
\* np.random.normal(1, 0.1, n), percent
DepthNoise == <<100, 98>>

\* the blend without the floor's share
NextVolumeDecayOnly(orig, upd, v) == (8 * upd.daily_volume) \div 10

\* base_volume * [5 *] 0.2 + updated daily_volume * 0.8
NextVolume(orig, upd, v) == (2 * FloorVolume(orig, v) + 8 * upd.daily_volume) \div 10
\* updated bid_ask_spread * spread_adjustment
NextSpread(upd, adj) == (upd.bid_ask_spread * adj) \div 100
\* the depth rounded to the nearest integer
NextDepthRounded(upd, adj) == RoundHalfEven(upd.market_depth * adj, 100)
\* (updated market_depth * depth_adjustment).astype(int)
NextDepth(upd, adj) == TruncDiv(upd.market_depth * adj, 100)

\* the carry-forward with the price smoothed like the volume
UpdateMarketForNextDaySmoothed(original, updated, v, spread_adjustment, depth_adjustment) ==
    [i \in 1..Len(original) |->
        [original[i] EXCEPT
            !.price = (2 * original[i].price + 8 * updated[i].price) \div 10,
            !.daily_volume = NextVolume(original[i], updated[i], v),
            !.bid_ask_spread = NextSpread(updated[i], spread_adjustment[i]),
            !.market_depth = NextDepth(updated[i], depth_adjustment[i])]]

\* the carry-forward left for later: the venue's table stays as it was
CarryForwardDeferred(original, updated, v, spread_adjustment, depth_adjustment) ==
    original

\* _update_market_for_next_day(original_market, updated_market)
UpdateMarketForNextDay(original, updated, v, spread_adjustment, depth_adjustment) ==
    [i \in 1..Len(original) |->
        [original[i] EXCEPT
            !.price = updated[i].price,
            !.daily_volume = NextVolume(original[i], updated[i], v),
            !.bid_ask_spread = NextSpread(updated[i], spread_adjustment[i]),
            !.market_depth = NextDepth(updated[i], depth_adjustment[i])]]

\* both venue attributes naming one table
CommitMarketShared(v, table) == [w \in Venues |-> table]

\* _update_market_for_next_day writes into the table it was handed, which
\* is the venue's own copy made at lines 138-139
CommitMarket(v, table) == [market EXCEPT ![v] = table]

\* Lines 366-379, and the driver's two appends that follow the return
\* (201-202 for the traditional venue, 211-212 for the tokenized one).
CloseDay ==
    /\ Running
    /\ pc = "trading"
    /\ frame.attempts = frame.num_transactions
    /\ LET v == frame.venue
           n == Len(market[v])
       IN /\ \E spread_adjustment \in [1..n -> Range(SpreadNoise)],
                depth_adjustment \in [1..n -> Range(DepthNoise)] :
                /\ devs' = devs + Departures(spread_adjustment, SpreadNoise[1])
                                + Departures(depth_adjustment, DepthNoise[1])
                /\ devs' <= MaxDevs
                /\ market' = CommitMarket(v,
                       UpdateMarketForNextDay(market[v], frame.updated_market, v,
                                              spread_adjustment, depth_adjustment))
          /\ metrics' = [metrics EXCEPT ![v] = Append(@, DailyMetrics(frame))]
          /\ transactions' = [transactions EXCEPT ![v] = @ \o frame.daily_transactions]
          /\ IF IsTokenized(v)
             THEN /\ day' = day + 1
                  /\ pc' = "loop"
             ELSE /\ day' = day
                  /\ pc' = CallPc("tokenized")
    /\ frame' = NoFrame
    /\ UNCHANGED <<cfg, bonds, investors, market_sentiment, metrics_df,
                   transactions_df, market_conditions, error, cond_calls, received,
                   first_outputs,
                   day_start, probe>>

\* lines 218-226: the tables handed to the reports
Finish ==
    /\ Running
    /\ pc = "loop"
    /\ ~LoopRuns(day)
    /\ metrics_df' = metrics
    /\ transactions_df' = transactions
    /\ pc' = "done"
    /\ UNCHANGED <<cfg, bonds, investors, market, transactions, market_sentiment,
                   metrics, day, market_conditions, frame, error, devs, cond_calls,
                   received, first_outputs,
                   day_start, probe>>

Next ==
    \/ GenerateBonds
    \/ GenerateInvestors
    \/ InitializeMarkets
    \/ BeginLoop
    \/ UpdateMarketConditions
    \/ \E v \in Venues : PriceUpdate(v)
    \/ Attempt
    \/ CloseDay
    \/ Finish

Spec == Init /\ [][Next]_vars
\* The module-level run_simulation(...) called once more with the same
\* arguments: a fresh BondMarketSimulator, the first run's tables kept aside
\* for comparison.
Outputs == [metrics_df |-> metrics_df, transactions_df |-> transactions_df]

SecondRun ==
    /\ Running
    /\ pc = "done"
    /\ first_outputs = <<>>
    /\ first_outputs' = <<Outputs>>
    /\ bonds' = None
    /\ investors' = None
    /\ market' = [v \in Venues |-> None]
    /\ transactions' = [v \in Venues |-> <<>>]
    /\ market_sentiment' = None
    /\ metrics' = [v \in Venues |-> <<>>]
    /\ metrics_df' = [v \in Venues |-> None]
    /\ transactions_df' = [v \in Venues |-> None]
    /\ day' = 0
    /\ market_conditions' = None
    /\ frame' = NoFrame
    /\ pc' = "generate_bonds"
    /\ cond_calls' = 0
    /\ received' = [v \in Venues |-> <<>>]
    /\ day_start' = [v \in Venues |-> None]
    /\ UNCHANGED <<cfg, error, devs, probe>>

NextTwin ==
    \/ Next
    \/ SecondRun

SpecTwin == Init /\ [][NextTwin]_vars

\* run_simulation() called once more on the same BondMarketSimulator after
\* it returned.  The bonds, the investors and the two markets exist, so
\* lines 174-179 generate nothing; the attributes keep what the first call
\* left in them, and the call goes on from line 181.  The tables of the
\* first call are kept aside, which also limits the calls to two.
Rerun ==
    /\ Running
    /\ pc = "done"
    /\ first_outputs = <<>>
    /\ first_outputs' = <<Outputs>>
    /\ pc' = "begin"
    /\ UNCHANGED <<cfg, bonds, investors, market, transactions, market_sentiment,
                   metrics, metrics_df, transactions_df, day, market_conditions,
                   frame, error, devs, cond_calls, received, day_start, probe>>

NextRerun ==
    \/ Next
    \/ Rerun

SpecRerun == Init /\ [][NextRerun]_vars

\* ------------------------------------------- the formulas on their own
\* Three formulas of the engine are functions of a few numbers only.  Each
\* is applied here to every input of a bounded range, on its own, without
\* the run around it: the inputs are drawn in the initial state and one
\* action applies the formula and keeps the result.
MaxProbeBonds == 6
MaxProbeDays == 8
MaxProbeDepth == 120

\* market_sentiment after the clip of line 251, in hundredths
Sentiments == (-100)..100
\* depth_adjustment = np.random.normal(1, 0.1): three standard deviations
\* either side of 1, in percent
DepthAdjustments == 70..130

ProbeInputs ==
    [kind : {"target"}, num_bonds : 1..MaxProbeBonds, sentiment : Sentiments]
    \cup {[kind |-> "trend", simulation_days |-> n, day |-> d] :
             n \in 1..MaxProbeDays, d \in 0..(MaxProbeDays - 1)}
    \cup [kind : {"depth"}, updated_depth : 0..MaxProbeDepth,
          depth_adjustment : DepthAdjustments]

InitPure ==
    /\ probe \in {q \in ProbeInputs :
                     q.kind = "trend" => q.day < q.simulation_days}
    \* the simulator around the formulas plays no part: one configuration,
    \* with the constructor's default minimums
    /\ cfg = [num_bonds |-> MaxBonds, num_investors |-> MaxInvestors,
              simulation_days |-> MaxDays, traditional_min_amount |-> 10000,
              tokenized_min_amount |-> 100]
    /\ bonds = None
    /\ investors = None
    /\ market = [v \in Venues |-> None]
    /\ transactions = [v \in Venues |-> <<>>]
    /\ market_sentiment = None
    /\ metrics = [v \in Venues |-> <<>>]
    /\ metrics_df = [v \in Venues |-> None]
    /\ transactions_df = [v \in Venues |-> None]
    /\ day = 0
    /\ market_conditions = None
    /\ frame = NoFrame
    /\ pc = "probe"
    /\ error = "none"
    /\ devs = 0
    /\ cond_calls = 0
    /\ received = [v \in Venues |-> <<>>]
    /\ first_outputs = <<>>
    /\ day_start = [v \in Venues |-> None]

Applied(result) ==
    /\ pc = "probe"
    /\ probe' = [inputs |-> probe, result |-> result]
    /\ pc' = "probed"
    /\ UNCHANGED <<cfg, bonds, investors, market, transactions, market_sentiment,
                   metrics, metrics_df, transactions_df, day, market_conditions,
                   frame, error, devs, cond_calls, received, first_outputs,
                   day_start>>

\* lines 306-313, for both venues on one day
ApplyTargetTransactions ==
    /\ pc = "probe"
    /\ probe.kind = "target"
    /\ Applied([v \in Venues |->
                   TargetTransactions(v, probe.num_bonds, probe.sentiment)])

\* line 240
ApplyRateTrend ==
    /\ pc = "probe"
    /\ probe.kind = "trend"
    /\ Applied(RateTrend(probe.day, probe.simulation_days))

\* lines 404-406, for one bond
ApplyNextDepth ==
    /\ pc = "probe"
    /\ probe.kind = "depth"
    /\ Applied(NextDepth([market_depth |-> probe.updated_depth],
                         probe.depth_adjustment))

NextPure ==
    \/ ApplyTargetTransactions
    \/ ApplyRateTrend
    \/ ApplyNextDepth

SpecPure == InitPure /\ [][NextPure]_vars

\* the result of a formula applied on its own to inputs of the given kind
Probed(kind) == pc = "probed" /\ probe.inputs.kind = kind

\* ======================================================== the claims

PositiveConfig ==
    /\ cfg.num_bonds > 0
    /\ cfg.num_investors > 0
    /\ cfg.simulation_days > 0
    /\ cfg.traditional_min_amount > 0
    /\ cfg.tokenized_min_amount > 0

\* The transactions the trading step of venue v has recorded: the venue's
\* log and the list of the step under way.
Recorded(v) ==
    Range(transactions[v])
        \cup (IF InTradingStep /\ frame.venue = v
              THEN Range(frame.daily_transactions) ELSE {})

\* the cap of a recorded transaction, from the bond and investor it names
CapOf(v, t) == MaxAmount(v, bonds[t.bond_id], investors[t.investor_id])

\* C1: every recorded transaction's amount is at least the venue's
\* configured minimum and at most min(multiple * face_value, 10% of assets).
C1_AmountWithinBounds ==
    \A v \in Venues : \A t \in Recorded(v) :
        /\ MinAmount(v) <= t.amount
        /\ t.amount <= CapOf(v, t)

\* C2: with a positive configuration run_simulation raises nothing and ends
\* with one metrics row per venue and day, in day order.
C2_RunCompletes ==
    PositiveConfig =>
        /\ error = "none"
        /\ pc = "done" =>
              \A v \in Venues :
                 /\ Len(metrics_df[v]) = cfg.simulation_days
                 /\ \A d \in 1..Len(metrics_df[v]) :
                       metrics_df[v][d].date = AddDays(StartDate, d - 1)

\* 10% of the investor's assets is below the venue's minimum
TenthBelowMinimum(v, investor) == investor.assets < 10 * MinAmount(v)

\* the entries of venue v's log that carry the date of a metrics row
LoggedOn(v, date) == {i \in 1..Len(transactions[v]) : transactions[v][i].date = date}

\* C3: the num_transactions of every metrics row is the number of entries
\* the driver appended to the venue's log for that day.
C3_CountMatchesLog ==
    \A v \in Venues : \A d \in 1..Len(metrics[v]) :
        metrics[v][d].num_transactions = Cardinality(LoggedOn(v, metrics[v][d].date))

\* C3 witness: a row with transactions on a venue whose log also holds
\* another day's entries, one investor being unable to afford the venue.
C3_Witness ==
    \E v \in Venues : \E d \in 1..Len(metrics[v]) :
        /\ metrics[v][d].num_transactions >= 1
        /\ Len(transactions[v]) > metrics[v][d].num_transactions
        /\ \E i \in 1..Len(investors) : TenthBelowMinimum(v, investors[i])

\* C4: once set, the sentiment is within [-1, 1]; it is 0 throughout day 0,
\* and the day's conditions carry the same value.
C4_SentimentClamped ==
    cond_calls > 0 =>
        /\ market_sentiment >= -100
        /\ market_sentiment <= 100
        /\ market_conditions.market_sentiment = market_sentiment
        /\ (cond_calls = 1 => market_sentiment = 0)

\* C4 witness: a later day on which the clip acted.
C4_Witness ==
    /\ cond_calls > 1
    /\ market_sentiment \in {-100, 100}

\* C5: generate_bonds leaves B traditional and B tokenized bonds with 2B
\* distinct ids, each tokenized bond the copy of its counterpart but for id
\* and flag.
C5_BondPairs ==
    BondsGenerated =>
        LET B == cfg.num_bonds IN
        /\ Len(bonds) = 2 * B
        /\ Cardinality({i \in 1..Len(bonds) : ~bonds[i].is_tokenized}) = B
        /\ Cardinality({i \in 1..Len(bonds) : bonds[i].is_tokenized}) = B
        /\ Cardinality({bonds[i].bond_id : i \in 1..Len(bonds)}) = 2 * B
        /\ \A i \in 1..Len(bonds) :
              bonds[i].is_tokenized =>
                 \E j \in 1..Len(bonds) :
                    /\ ~bonds[j].is_tokenized
                    /\ bonds[i].bond_id = bonds[j].bond_id + B
                    /\ bonds[i].face_value = bonds[j].face_value
                    /\ bonds[i].coupon_rate = bonds[j].coupon_rate
                    /\ bonds[i].maturity_years = bonds[j].maturity_years
                    /\ bonds[i].credit_rating = bonds[j].credit_rating
                    /\ bonds[i].issue_date = bonds[j].issue_date
                    /\ bonds[i].maturity_date = bonds[j].maturity_date

\* C5 witness: two pairs generated with different terms.
C5_Witness ==
    /\ BondsGenerated
    /\ cfg.num_bonds = 2
    /\ bonds[1].face_value # bonds[2].face_value
    /\ bonds[1].maturity_years # bonds[2].maturity_years
\* C6: at initialization and at the start of every later day, each
\* tokenized bond's spread is at most its traditional counterpart's.
C6_TokenizedSpreadBelow ==
    (MarketsInitialized /\ pc \in {"begin", "loop"}) =>
        \A i \in 1..cfg.num_bonds :
            market["tokenized"][i].bid_ask_spread
                <= market["traditional"][i].bid_ask_spread

\* the days whose row venue v's step has delivered to the driver
DaysClosed(v) ==
    IF pc = "call_tokenized" \/ (InTradingStep /\ frame.venue = "tokenized")
    THEN (IF IsTokenized(v) THEN day ELSE day + 1)
    ELSE day

\* every investor's tenth of assets is below venue v's minimum
NobodyAffords(v) ==
    /\ cfg.num_bonds > 0
    /\ cfg.num_investors > 0
    /\ InvestorsGenerated
    /\ \A i \in 1..Len(investors) : TenthBelowMinimum(v, investors[i])

\* C7: on a venue nobody can afford, the trading step raises nothing and
\* every day closes with a row of num_transactions = 0 and no transaction.
C7_UnaffordableVenue ==
    \A v \in Venues :
        NobodyAffords(v) =>
            /\ (InTradingStep /\ frame.venue = v) =>
                   (error = "none" /\ frame.daily_transactions = <<>>)
            /\ transactions[v] = <<>>
            /\ Len(metrics[v]) = DaysClosed(v)
            /\ \A d \in 1..Len(metrics[v]) : metrics[v][d].num_transactions = 0

\* C7 witness: a day closed on each venue with nobody able to afford it.
C7_Witness ==
    /\ NobodyAffords("traditional")
    /\ NobodyAffords("tokenized")
    /\ Len(metrics["traditional"]) >= 1
    /\ Len(metrics["tokenized"]) >= 1

\* C8: with a day count of 1 the condition process is called once, the
\* call yields sentiment 0, and that is what both venues' steps receive.
C8_SingleDay ==
    cfg.simulation_days = 1 =>
        /\ cond_calls <= 1
        /\ pc \in {"call_traditional", "call_tokenized", "trading", "done"} =>
               /\ cond_calls = 1
               /\ market_sentiment = 0
               /\ market_conditions.market_sentiment = 0
        /\ \A v \in Venues :
               received[v] # <<>> => received[v][1].market_sentiment = 0

\* C8 witness: a one-day run that finished after both venues' steps.
C8_Witness ==
    /\ cfg.simulation_days = 1
    /\ pc = "done"
    /\ \A v \in Venues : received[v] # <<>>
    /\ Len(metrics_df["tokenized"]) = 1

\* C9: two runs of one configuration end with the same metrics tables and
\* the same transaction logs.
C9_SameConfigurationSameTables ==
    (first_outputs # <<>> /\ pc = "done") => Outputs = first_outputs[1]

\* C10: one draw of conditions per day; both venues' steps are called with
\* it, and it is still the driver's draw while they run.
C10_SharedConditions ==
    /\ pc \in {"call_traditional", "call_tokenized", "trading"} =>
           cond_calls = day + 1
    /\ pc \in {"begin", "loop", "done"} => cond_calls = day
    /\ \A v \in Venues : received[v] # <<>> => received[v][1] = market_conditions
    /\ InTradingStep => frame.market_conditions = market_conditions
    /\ (received["traditional"] # <<>> /\ received["tokenized"] # <<>>) =>
           received["traditional"] = received["tokenized"]

\* C10 witness: the tokenized step under way on a day of an event, after
\* the traditional step and its carry-forward.
C10_Witness ==
    /\ InTradingStep
    /\ frame.venue = "tokenized"
    /\ received["traditional"] # <<>>
    /\ market_conditions.event_impact # 0
    /\ market_conditions.market_sentiment # 0

\* C11: a configuration with a non-positive count, day count or minimum is
\* rejected before the day loop starts -- the run never completes, no day's
\* conditions are drawn and no metrics row or transaction is produced.
C11_NonPositiveRejected ==
    ~PositiveConfig =>
        /\ pc # "done"
        /\ cond_calls = 0
        /\ \A v \in Venues : metrics[v] = <<>> /\ transactions[v] = <<>>

\* a pass of the step's loop: the frame changes and the step goes on
LoopPass == InTradingStep /\ InTradingStep' /\ frame' # frame /\ error' = "none"

\* C12 as stated: a pairing skipped because the investor cannot afford the
\* venue minimum records no transaction and leaves the day's budget of
\* passes as it was.
C12_SkipKeepsBudget ==
    [][(LoopPass /\ frame'.skipped > frame.skipped)
          => /\ frame'.daily_transactions = frame.daily_transactions
             /\ frame'.attempts = frame.attempts]_vars

\* C12, amended: every pass of the loop spends one unit of the day's target;
\* a pass either records no transaction (a skip, possible only when some
\* investor has 10% of assets below the venue minimum) or records exactly
\* one transaction of an investor who can afford the minimum.
C12_SkipSpendsOnePass ==
    [][LoopPass =>
          LET v == frame.venue
              before == frame.daily_transactions
              after == frame'.daily_transactions
          IN /\ frame'.attempts = frame.attempts + 1
             /\ \/ /\ after = before
                   /\ frame'.skipped = frame.skipped + 1
                   /\ \E i \in 1..Len(investors) : TenthBelowMinimum(v, investors[i])
                \/ /\ Len(after) = Len(before) + 1
                   /\ SubSeq(after, 1, Len(before)) = before
                   /\ frame'.skipped = frame.skipped
                   /\ ~TenthBelowMinimum(v, investors[after[Len(after)].investor_id])]_vars

\* a step in which one pairing was skipped and another one traded
C12_Witness ==
    /\ InTradingStep
    /\ error = "none"
    /\ frame.skipped >= 1
    /\ Len(frame.daily_transactions) >= 1

\* the step that ends the trading step of the venue (its return)
StepReturns == InTradingStep /\ ~InTradingStep' /\ error' = "none"

\* C13: the target is a budget of attempts -- while a step runs the
\* executed transactions number the passes made less those skipped, never
\* above the target, and the row the step returns counts the target less
\* the skipped passes.
C13_AttemptBudget ==
    /\ []((InTradingStep /\ error = "none") =>
             /\ frame.attempts <= frame.num_transactions
             /\ Len(frame.daily_transactions) = frame.attempts - frame.skipped
             /\ Len(frame.daily_transactions) <= frame.num_transactions)
    /\ [][StepReturns =>
             LET v == frame.venue
                 row == metrics'[v][Len(metrics'[v])]
             IN /\ Len(metrics'[v]) = Len(metrics[v]) + 1
                /\ row.num_transactions = frame.num_transactions - frame.skipped
                /\ row.num_transactions <= frame.num_transactions
                /\ Len(transactions'[v]) = Len(transactions[v]) + row.num_transactions]_vars

\* a step whose budget is spent, partly on skipped pairings
C13_Witness ==
    /\ InTradingStep
    /\ error = "none"
    /\ frame.attempts = frame.num_transactions
    /\ frame.skipped >= 1
    /\ frame.skipped < frame.num_transactions

\* the day's tokenized step has not returned yet: it is about to be called
\* or is running
TokenizedStepAhead ==
    /\ error = "none"
    /\ \/ pc = CallPc("tokenized")
       \/ InTradingStep /\ frame.venue = "tokenized"

\* the amounts venue v traded today on the bond of the given id
TradedToday(v, id) ==
    SumSeq(Column(SelectSeq(transactions[v],
                            LAMBDA t : t.date = AddDays(StartDate, day)
                                       /\ t.bond_id = id),
                  "amount"))

\* C14 as stated: no carry-forward is committed before both venues' steps of
\* the day have run -- while the tokenized step is still ahead, the
\* traditional table is the one the day began with.
C14_CarryForwardAfterBothSteps ==
    TokenizedStepAhead => market["traditional"] = day_start["traditional"]

\* C14, amended: each venue's carry-forward is committed inside its own
\* trading step.  While the tokenized step of a day is still ahead, the
\* traditional row of the day is appended and the traditional table already
\* is tomorrow's (the day's updated prices, the blended volumes of the day's
\* trades), and the tokenized table is still the one the day began with.
C14_CarryForwardInsideStep ==
    TokenizedStepAhead =>
        LET t == market["traditional"]
            row == metrics["traditional"][day + 1]
        IN /\ Len(metrics["traditional"]) = day + 1
           /\ Len(metrics["tokenized"]) = day
           /\ row.avg_price = Mean(Column(t, "price"))
           /\ \A i \in 1..Len(t) :
                 t[i].daily_volume =
                     (2 * FloorVolume(t[i], "traditional")
                      + 8 * (day_start["traditional"][i].daily_volume
                             + TradedToday("traditional", t[i].bond_id))) \div 10
           /\ market["tokenized"] = day_start["tokenized"]

\* the tokenized step is about to be called and the traditional table has
\* already changed since the day began
C14_Witness ==
    /\ error = "none"
    /\ pc = CallPc("tokenized")
    /\ market["traditional"] # day_start["traditional"]
    /\ \E i \in 1..Len(bonds) : TradedToday("traditional", bonds[i].bond_id) > 0

\* a step taken by the trading step of venue v: its call, a pass of its
\* loop, or its carry-forward and return
StepOf(v) ==
    \/ pc = CallPc(v)
    \/ InTradingStep /\ frame.venue = v

OtherVenue(v) == IF IsTokenized(v) THEN "traditional" ELSE "tokenized"

\* C15: the trading step and the carry-forward of one venue leave the other
\* venue's table (price, daily volume, spread and depth of every bond), the
\* bonds and the investors as they were.
C15_OtherVenueUntouched ==
    [][\A v \in Venues :
          StepOf(v) => /\ market'[OtherVenue(v)] = market[OtherVenue(v)]
                       /\ bonds' = bonds
                       /\ investors' = investors]_vars

\* a day is over on which the tokenized step changed its own table, the
\* traditional table being the one the day began with
C15_Witness ==
    /\ error = "none"
    /\ pc = "loop"
    /\ day >= 1
    /\ market["tokenized"] # day_start["tokenized"]
    /\ market["traditional"] = day_start["traditional"]

\* the amounts of the running step's transactions on the bond of the given id
TradedInStep(id) ==
    SumSeq(Column(SelectSeq(frame.daily_transactions, LAMBDA t : t.bond_id = id),
                  "amount"))

\* C16: on either venue every executed transaction's amount is in the
\* running daily volume of the bond whose bond_id it records -- each bond's
\* volume is its volume at the start of the day plus the amounts traded on
\* it, so the total is the day-start total plus the day's amounts -- and the
\* table keeps one row per bond.
C16_VolumeFollowsTransactions ==
    InTradingStep =>
        LET v == frame.venue
            um == frame.updated_market
        IN /\ Len(um) = cfg.num_bonds
           /\ \A i \in 1..Len(um) :
                 um[i].daily_volume =
                     day_start[v][i].daily_volume + TradedInStep(um[i].bond_id)
           /\ SumSeq(Column(um, "daily_volume")) =
                  SumSeq(Column(day_start[v], "daily_volume"))
                  + SumSeq(Column(frame.daily_transactions, "amount"))

\* the row of a table for the bond of the given id
RowOf(table, id) == table[CHOOSE i \in 1..Len(table) : table[i].bond_id = id]

\* p is the execution price the side gets from the quoted price and spread:
\* price * (1 + spread/2) for a buy, price * (1 - spread/2) for a sell,
\* rounded down to the grid
ExecutedAt(p, quoted, spread, side) ==
    LET exact == IF side = "buy" THEN quoted * (2 * BP + spread)
                                 ELSE quoted * (2 * BP - spread)
    IN p * (2 * BP) <= exact /\ exact < (p + 1) * (2 * BP)

\* C17: carry-forward leaves the price unsmoothed.  The prices of a step's
\* table are those of its price update for the whole step; the day's
\* execution prices and avg_price are computed from them; the step's return
\* writes exactly them into the venue's table, and no other step changes the
\* venue's prices, so the next day starts from them.
C17_PriceCarriedUnchanged ==
    /\ []((InTradingStep /\ error = "none") =>
             \A k \in 1..Len(frame.daily_transactions) :
                LET t == frame.daily_transactions[k]
                    b == RowOf(frame.updated_market, t.bond_id)
                IN ExecutedAt(t.price, b.price, b.bid_ask_spread, t.type))
    /\ [][/\ LoopPass =>
                Column(frame'.updated_market, "price")
                    = Column(frame.updated_market, "price")
          /\ StepReturns =>
                LET v == frame.venue
                    updated == Column(frame.updated_market, "price")
                IN /\ Column(market'[v], "price") = updated
                   /\ metrics'[v][Len(metrics'[v])].avg_price = Mean(updated)
          /\ (MarketsInitialized /\ MarketsInitialized' /\ ~StepReturns) =>
                \A v \in Venues :
                   Column(market'[v], "price") = Column(market[v], "price")]_vars

\* a day began from a price that the day before had moved
C17_Witness ==
    /\ error = "none"
    /\ pc = CallPc("traditional")
    /\ day >= 1
    /\ \E v \in Venues : \E i \in 1..Len(market[v]) :
          /\ market[v][i].price # InitialPrice(market[v][i])
          /\ Len(transactions[v]) >= 1

\* C18 as stated: the next day's depth is round(updated_depth * noise), the
\* integer nearest to the product.
C18_DepthRounded ==
    Probed("depth") =>
        LET product == probe.inputs.updated_depth * probe.inputs.depth_adjustment
        IN /\ 2 * Abs(100 * probe.result - product) <= 100
           /\ probe.result = RoundHalfEven(product, 100)

\* C18, amended: the next day's depth is the product truncated toward zero,
\* the largest integer not above the (non-negative) product.
C18_DepthTruncated ==
    Probed("depth") =>
        LET product == probe.inputs.updated_depth * probe.inputs.depth_adjustment
        IN /\ 100 * probe.result <= product
           /\ product < 100 * (probe.result + 1)

\* a product whose nearest integer is above its truncation: 20 * 0.98
C18_Witness ==
    /\ Probed("depth")
    /\ probe.inputs.updated_depth = 2 * DepthFloor("traditional")
    /\ probe.inputs.depth_adjustment = DepthNoise[2]
    /\ probe.result = probe.inputs.updated_depth - 1
    /\ RoundHalfEven(probe.inputs.updated_depth * probe.inputs.depth_adjustment, 100)
           = probe.inputs.updated_depth

\* k is int(num / den) for num >= 0 and den > 0
IsIntOf(k, num, den) == k * den <= num /\ num < (k + 1) * den

\* C19: with base = 2 * bond_count the target is
\* max(1, int(base * (1.5 + sentiment))) on the tokenized venue and
\* max(1, int(base * (0.5 + 0.5 * sentiment))) on the traditional one; so
\* for a sentiment in [-1, 1] and at least one bond both targets are at
\* least 1 and the tokenized target is at least the traditional one.
C19_Targets ==
    Probed("target") =>
        LET base == 2 * probe.inputs.num_bonds
            s == probe.inputs.sentiment
            tok == probe.result["tokenized"]
            trad == probe.result["traditional"]
        IN /\ \E k \in 0..(3 * base) :
                 /\ IsIntOf(k, base * (150 + s), 100)
                 /\ tok = IF k >= 1 THEN k ELSE 1
           /\ \E k \in 0..base :
                 /\ IsIntOf(k, base * (50 * 2 + s), 2 * 100)
                 /\ trad = IF k >= 1 THEN k ELSE 1
           /\ tok >= 1
           /\ trad >= 1
           /\ tok >= trad

\* the sentiment at its lowest: the traditional product is 0 and the
\* minimum of one is what the target is
C19_Witness ==
    /\ Probed("target")
    /\ probe.inputs.sentiment = -100
    /\ probe.inputs.num_bonds > 1
    /\ probe.result["traditional"] = 1
    /\ probe.result["tokenized"] = probe.inputs.num_bonds

\* C20 as stated: the trend is linear in the day, 0 on day 0 and +1% (100
\* basis points) on the last day N-1 of an N-day run.
C20_TrendReachesOnePercent ==
    Probed("trend") =>
        LET n == probe.inputs.simulation_days
            d == probe.inputs.day
        IN /\ (d = 0) => (probe.result = 0)
           /\ (d = n - 1) => (probe.result = 100)
           \* the line through those two points
           /\ (n > 1) => IsIntOf(probe.result, d * 100, n - 1)

\* C20, amended: the trend is day/N of 1% -- linear in the day, 0 on day 0,
\* and (N-1)/N of 1% on the last day N-1, below 1% for every N.
C20_TrendBelowOnePercent ==
    Probed("trend") =>
        LET n == probe.inputs.simulation_days
            d == probe.inputs.day
        IN /\ IsIntOf(probe.result, d * 100, n)
           /\ d = 0 => probe.result = 0
           /\ d = n - 1 => /\ IsIntOf(probe.result, (n - 1) * 100, n)
                           /\ probe.result < 100

\* the last day of a run of several days
C20_Witness ==
    /\ Probed("trend")
    /\ probe.inputs.simulation_days > 2
    /\ probe.inputs.day = probe.inputs.simulation_days - 1
    /\ probe.result > 0

\* 1% of the face value, times 5 on the tokenized venue
FloorOf(row, v) ==
    IF v = "tokenized" THEN 5 * (row.face_value \div 100)
                       ELSE row.face_value \div 100

\* C21: the daily volume of every bond of each venue is at least the bond's
\* floor volume at the start of every day (and in the table between the
\* days), and every DailyMetrics row has a positive total_volume, the rows
\* without transactions included.
C21_VolumeAtLeastFloor ==
    /\ MarketsInitialized =>
          \A v \in Venues : \A i \in 1..Len(market[v]) :
             market[v][i].daily_volume >= FloorOf(market[v][i], v)
    /\ cond_calls > 0 =>
          \A v \in Venues : \A i \in 1..Len(day_start[v]) :
             day_start[v][i].daily_volume >= FloorOf(day_start[v][i], v)
    /\ \A v \in Venues : \A d \in 1..Len(metrics[v]) :
          metrics[v][d].total_volume > 0

\* a later day begins with a bond above its floor (it was traded the day
\* before) while a venue has a row without transactions
C21_Witness ==
    /\ error = "none"
    /\ pc = CallPc("traditional")
    /\ day >= 1
    /\ \E v \in Venues : \E i \in 1..Len(day_start[v]) :
          day_start[v][i].daily_volume > FloorOf(day_start[v][i], v)
    /\ \E v \in Venues : \E d \in 1..Len(metrics[v]) :
          metrics[v][d].num_transactions = 0 /\ metrics[v][d].total_volume > 0

\* C22: whenever a call of run_simulation has completed, each venue's
\* transactions table has as many entries as the num_transactions of the
\* venue's metrics table add up to, and the metrics table has
\* simulation_days rows.
C22_TablesOfOneRun ==
    (pc = "done" /\ error = "none") =>
        \A v \in Venues :
           /\ Len(transactions_df[v]) = SumSeq(Column(metrics_df[v], "num_transactions"))
           /\ Len(metrics_df[v]) = cfg.simulation_days

\* the date of simulated day d (days count from 0)
DateOfDay(d) == <<StartDate[1], StartDate[2], StartDate[3] + d>>

\* a date not after another, for the dates of one month
NotAfter(a, b) == a[1] = b[1] /\ a[2] = b[2] /\ a[3] <= b[3]

\* the bond ids of a venue: 1..B traditional, B+1..2B tokenized
BondIdsOf(v) ==
    IF v = "tokenized" THEN (cfg.num_bonds + 1)..(2 * cfg.num_bonds)
                       ELSE 1..cfg.num_bonds

\* C23: every transaction of a venue carries the venue's flag, a bond id of
\* the venue and the id of an existing investor, and the date of the day
\* that generated it (the running day, while the step records it), so that
\* the venue's log is in non-decreasing date order.
C23_LogWellFormed ==
    \A v \in Venues :
       /\ \A t \in Recorded(v) :
             /\ t.is_tokenized = (v = "tokenized")
             /\ t.bond_id \in BondIdsOf(v)
             /\ t.investor_id \in 1..cfg.num_investors
       /\ (InTradingStep /\ frame.venue = v) =>
             \A k \in 1..Len(frame.daily_transactions) :
                frame.daily_transactions[k].date = DateOfDay(day)
       /\ \A i, j \in 1..Len(transactions[v]) :
             i < j => NotAfter(transactions[v][i].date, transactions[v][j].date)

====
